---- MODULE Spec2Model ----
(***************************************************************************)
(* Court Fetcher API (app.py, models.py): the dataset indexer, the case    *)
(* resolver, the lookup and download handlers, the rendered documents and  *)
(* the audit log, as a state machine.                                      *)
(*                                                                         *)
(* Python values: a dict with string keys is a function (record); a dict   *)
(* whose key order is read (a CSV row, sample_data) is a sequence of       *)
(* <<key, value>> pairs; None is Null where a string may stand and NoDict  *)
(* where a dict may stand.                                                 *)
(***************************************************************************)
EXTENDS Integers, Sequences, FiniteSets, TLC

VARIABLES
    files,              \* the report files, in the order the scan enumerates them
    DATASET_ROWS,       \* (code, idx) -> stored row
    CASE_INDEX,         \* case number -> (code, idx)
    DATASET_SUMMARY,    \* code -> row count
    USE_MOCK,           \* the USE_MOCK environment toggle, read at import
    fetch_available,    \* whether scraper.ecourts imported (fetch_case_details is not None)
    REPORTLAB_OK,       \* whether reportlab imported
    downloads,          \* the downloads directory: file name -> content
    query_log,          \* the QueryLog table, in insertion order
    last,               \* the handler that ran last, with its response
    load,               \* the in-flight rebuild of the stepwise specification
    res                 \* the in-flight resolve of the stepwise specification

vars == <<files, DATASET_ROWS, CASE_INDEX, DATASET_SUMMARY, USE_MOCK, fetch_available,
          REPORTLAB_OK, downloads, query_log, last, load, res>>

\* ---------------------------------------------------------------- bounds

MaxFiles == 2
MaxLog == 2

\* ---------------------------------------------------------- Python values

Null == "<None>"
NoDict == [none |-> "None"]
\* an empty dict, and a value that is no dict (a list, a string)
EmptyDict == [empty |-> "{}"]
NonDict == [nondict |-> "[]"]
IsDict(v) == v # NoDict /\ v # NonDict
\* "not v" for a value the code tests before use
Falsy(v) == v = NoDict \/ v = EmptyDict

Truthy(s) == s # Null /\ s # ""
Or(a, b) == IF Truthy(a) THEN a ELSE b

\* d[k] = v on a dict held as a function
Put(d, k, v) == (k :> v) @@ d

\* d.setdefault(k, v)
setdefault(d, k, v) == IF k \in DOMAIN d THEN d ELSE Put(d, k, v)

\* data.get(k) on an ordered dict: None when the key is absent
RECURSIVE GetFrom(_, _, _)
GetFrom(d, k, i) ==
    IF i > Len(d) THEN Null
    ELSE IF d[i][1] = k THEN d[i][2]
    ELSE GetFrom(d, k, i + 1)
Get(d, k) == GetFrom(d, k, 1)

\* list(d.items())[:n]
FirstN(d, n) == SubSeq(d, 1, IF Len(d) < n THEN Len(d) ELSE n)

\* str.strip(), str.lower(), key.title(), key.upper() on the strings the model holds
StripTable == (" " :> "") @@ (" Ravi Kumar " :> "Ravi Kumar")
Strip(s) == IF s \in DOMAIN StripTable THEN StripTable[s] ELSE s

LowerTable == ("Year" :> "year") @@ ("State" :> "state") @@ ("Petitioner" :> "petitioner")
Lower(s) == IF s \in DOMAIN LowerTable THEN LowerTable[s] ELSE s
ContainsYear(s) == s \in {"year", "filing_year", "year_of_filing"}

TitleTable ==
    ("case_title" :> "Case_Title") @@ ("title" :> "Title") @@ ("parties" :> "Parties")
    @@ ("case name" :> "Case Name") @@ ("case_name" :> "Case_Name")
UpperTable ==
    ("case_title" :> "CASE_TITLE") @@ ("title" :> "TITLE") @@ ("parties" :> "PARTIES")
    @@ ("case name" :> "CASE NAME") @@ ("case_name" :> "CASE_NAME")

\* ------------------------------------------------------------- constants

OverrideCase == 8152
NDAP_URL == "https://ndap.niti.gov.in"
ECOURTS_URL == "https://services.ecourts.gov.in"

OVERRIDE_CASES ==
    OverrideCase :> [
        parties |-> "Alice Sharma vs State of Odisha",
        filing_date |-> "2020",
        next_hearing |-> "2025-11-15",
        status |-> "Disposed",
        raw_source |-> [url |-> NDAP_URL],
        sample_data |-> << <<"Rowid", "4">>, <<"Country", "India">>,
                           <<"State lgd code", "21">>, <<"State", "Odisha">>,
                           <<"Year", "2020">>, <<"Sector", "Agriculture">>,
                           <<"District", "Khordha">>, <<"Gender", "Male">>,
                           <<"Category", "Rural">> >>]

\* ----------------------------------------------------------- report files

\* A report file: its folder's place in DATASET_DIRS, its name, whether
\* pd.read_csv reads it, and the frame read (columns, rows of cell strings;
\* a NaN cell is already "").
DATASET_DIRS == <<"dataset", "archive", "archive(1)">>

\* int(fname.split("_")[-1].split(".")[0]); 0 - 1 where int() raises
BadCode == 0 - 1
CodeTable ==
    ("NDAP_REPORT_100.csv" :> 100) @@ ("NDAP_REPORT_99.csv" :> 99)
    @@ ("NDAP_REPORT_8152.csv" :> 8152) @@ ("NDAP_REPORT_101.csv" :> 101)
    @@ ("NDAP_REPORT_final.csv" :> BadCode)
ParseCode(name) == CodeTable[name]

ColsA == <<"Year", "title">>
ColsB == <<"State", "Petitioner", "status">>
RowA1 == <<"2020", "Asha vs Union of India">>
RowA2 == <<"2021", " ">>
RowB1 == <<"Odisha", " Ravi Kumar ", "Pending">>
RowB2 == <<"", "", "">>

File(dir, name, readable, cols, rows) ==
    [dir |-> dir, name |-> name, readable |-> readable, cols |-> cols, rows |-> rows]

IndexPool == {
    File(1, "NDAP_REPORT_100.csv", TRUE, ColsA, <<RowA1>>),
    File(2, "NDAP_REPORT_100.csv", TRUE, ColsB, <<RowB1, RowB2>>),
    File(1, "NDAP_REPORT_99.csv", TRUE, ColsA, <<RowA2, RowA1>>),
    File(2, "NDAP_REPORT_8152.csv", TRUE, ColsB, <<RowB1>>),
    File(1, "NDAP_REPORT_101.csv", TRUE, ColsA, <<>>),
    File(1, "NDAP_REPORT_final.csv", TRUE, ColsA, <<RowA1>>),
    File(2, "NDAP_REPORT_99.csv", FALSE, <<>>, <<>>) }

\* The scan visits the folders in DATASET_DIRS order and, within a folder,
\* the files in the order glob returns them; a path names one file.
ScanOrdered(fs) ==
    /\ \A i, j \in 1..Len(fs) : i < j => fs[i].dir <= fs[j].dir
    /\ \A i, j \in 1..Len(fs) :
          i # j => <<fs[i].dir, fs[i].name>> # <<fs[j].dir, fs[j].name>>

\* the scans of at most MaxFiles files of a pool
FileSystems(pool) ==
    {fs \in UNION {[1..n -> pool] : n \in 0..MaxFiles} : ScanOrdered(fs)}

InsertAt(s, i, x) == SubSeq(s, 1, i - 1) \o <<x>> \o SubSeq(s, i, Len(s))
RemoveAt(s, i) == SubSeq(s, 1, i - 1) \o SubSeq(s, i + 1, Len(s))

\* ------------------------------------------------------------- the indexer

Tables(rows, index, summary) == [rows |-> rows, index |-> index, summary |-> summary]

\* DATASET_ROWS.clear(); CASE_INDEX.clear(); DATASET_SUMMARY.clear()
ClearRows(t) == [t EXCEPT !.rows = <<>>]
ClearIndex(t) == [t EXCEPT !.index = <<>>]
ClearSummary(t) == [t EXCEPT !.summary = <<>>]
ClearTablesKeepIndex(t) == ClearSummary(ClearRows(t))
ClearTables(t) == ClearSummary(ClearIndex(ClearRows(t)))

\* next((c for c in cols if "year" in c.lower()), None)
RECURSIVE YearColFrom(_, _)
YearColFrom(cols, i) ==
    IF i > Len(cols) THEN Null
    ELSE IF ContainsYear(Lower(cols[i])) THEN cols[i]
    ELSE YearColFrom(cols, i + 1)
YearCol(cols) == YearColFrom(cols, 1)

\* {c: ("" if pd.isna(row[c]) else str(row[c])) for c in cols}
RowDict(cols, row) == [i \in 1..Len(cols) |-> <<cols[i], row[i]>>]

\* the body of the row loop, for row idx of a file of the given code
StoreRowData(t, code, idx, cols, row) ==
    [t EXCEPT !.rows = Put(@, <<code, idx>>,
        [dataset_code |-> code, row_index |-> idx,
         data |-> RowDict(cols, row), year_col |-> YearCol(cols)])]
StoreIndexCode(t, code, idx) ==
    IF idx = 0 THEN [t EXCEPT !.index = Put(@, code, <<code, 0>>)] ELSE t
StoreIndexSum(t, code, idx) == [t EXCEPT !.index = Put(@, code + idx, <<code, idx>>)]
StoreRow(t, code, idx, cols, row) ==
    StoreIndexSum(StoreIndexCode(StoreRowData(t, code, idx, cols, row), code, idx), code, idx)

\* a file the loop body passes over: its code does not parse, it does not
\* read, or its frame is empty
Skipped(f) == ParseCode(f.name) = BadCode \/ ~f.readable \/ Len(f.rows) = 0

StoreSummary(t, f) == [t EXCEPT !.summary = Put(@, ParseCode(f.name), Len(f.rows))]

RECURSIVE LoadRows(_, _, _)
LoadRows(t, f, idx) ==
    IF idx >= Len(f.rows) THEN t
    ELSE LoadRows(StoreRow(t, ParseCode(f.name), idx, f.cols, f.rows[idx + 1]), f, idx + 1)

LoadFile(t, f) == IF Skipped(f) THEN t ELSE LoadRows(StoreSummary(t, f), f, 0)

RECURSIVE LoadFiles(_, _, _)
LoadFiles(t, fs, i) ==
    IF i > Len(fs) THEN t ELSE LoadFiles(LoadFile(t, fs[i]), fs, i + 1)

RECURSIVE TotalRows(_, _)
TotalRows(fs, i) ==
    IF i > Len(fs) THEN 0
    ELSE (IF Skipped(fs[i]) THEN 0 ELSE Len(fs[i].rows)) + TotalRows(fs, i + 1)

\* _load_ndap_datasets on tables t over the scanned files fs
LoadNdapDatasets(t, fs) == LoadFiles(ClearTables(t), fs, 1)

NoTables == Tables(<<>>, <<>>, <<>>)
CurTables == Tables(DATASET_ROWS, CASE_INDEX, DATASET_SUMMARY)

\* ------------------------------------------------------------ the resolver

\* data.get(key) or data.get(key.title()) or data.get(key.upper())
KeyVariants(data, key) ==
    Or(Or(Get(data, key), Get(data, TitleTable[key])), Get(data, UpperTable[key]))

TitleKeys == <<"case_title", "title", "parties", "case name", "case_name">>

RECURSIVE TitleFrom(_, _)
TitleFrom(data, i) ==
    IF i > Len(TitleKeys) THEN Null
    ELSE LET v == KeyVariants(data, TitleKeys[i])
         IN  IF Truthy(v) /\ Truthy(Strip(v)) THEN Strip(v) ELSE TitleFrom(data, i + 1)

Versus(a, x, b, y) ==
    IF Truthy(a) \/ Truthy(b)
    THEN Strip(Or(a, x)) \o " vs " \o Strip(Or(b, y))
    ELSE Null

BestPartiesFromRow(data) ==
    IF Len(data) = 0 THEN Null
    ELSE LET t == TitleFrom(data, 1)
             pet == Or(Or(Get(data, "petitioner"), Get(data, "Petitioner")), Get(data, "PETITIONER"))
             rsp == Or(Or(Get(data, "respondent"), Get(data, "Respondent")), Get(data, "RESPONDENT"))
             pl == Or(Or(Get(data, "plaintiff"), Get(data, "Plaintiff")), Get(data, "PLAINTIFF"))
             df == Or(Or(Get(data, "defendant"), Get(data, "Defendant")), Get(data, "DEFENDANT"))
             pr == Versus(pet, "Petitioner", rsp, "Respondent")
         IN  IF t # Null THEN t
             ELSE IF pr # Null THEN pr
             ELSE Versus(pl, "Plaintiff", df, "Defendant")

\* the record derived from index key (code, idx) over the rows table; a key
\* the rows table does not hold reads as an empty row
RowRecord(rows, key) ==
    LET present == key \in DOMAIN rows
        data == IF present THEN rows[key].data ELSE <<>>
        year_col == IF present THEN rows[key].year_col ELSE Null
        best == BestPartiesFromRow(data)
    IN  [parties |-> IF Truthy(best) THEN best
                     ELSE "Case " \o ToString(key[1]) \o "-" \o ToString(key[2]),
         filing_date |-> Or(IF Truthy(year_col) THEN Get(data, year_col) ELSE "N/A", "N/A"),
         next_hearing |-> Or(Get(data, "next_hearing"), "N/A"),
         status |-> Or(Get(data, "status"), "From NDAP Dataset"),
         raw_source |-> [url |-> NDAP_URL],
         sample_data |-> FirstN(data, 5)]

\* the CSV-backed tier alone
DatasetTier(n, index, rows) ==
    IF n \notin DOMAIN index THEN NoDict ELSE RowRecord(rows, index[n])

DatasetFirst(n, index, rows) ==
    IF n \in DOMAIN index THEN RowRecord(rows, index[n])
    ELSE IF n \in DOMAIN OVERRIDE_CASES THEN OVERRIDE_CASES[n]
    ELSE NoDict

\* _dataset_lookup_by_case over the given tables
LookupByCase(n, index, rows) ==
    IF n \in DOMAIN OVERRIDE_CASES THEN OVERRIDE_CASES[n]
    ELSE DatasetTier(n, index, rows)

dataset_lookup_by_case(n) == LookupByCase(n, CASE_INDEX, DATASET_ROWS)

\* ------------------------------------------------------ record completion

AsErrorNoObject(msg, where) ==
    [parties |-> "N/A", filing_date |-> "N/A", next_hearing |-> "N/A",
     status |-> "N/A", raw_source |-> [url |-> ""]]

\* _as_error
AsError(msg, where) ==
    [parties |-> "N/A", filing_date |-> "N/A", next_hearing |-> "N/A",
     status |-> "Error", error |-> [where |-> where, message |-> msg],
     raw_source |-> [url |-> ""]]

\* _ensure_min_fields
EnsureMinFields(details) ==
    LET d0 == IF ~IsDict(details) \/ Falsy(details)
              THEN AsError("Empty response", "server") ELSE details
        d1 == setdefault(d0, "parties", "N/A")
        d2 == setdefault(d1, "filing_date", "N/A")
        d3 == setdefault(d2, "next_hearing", "N/A")
        d4 == setdefault(d3, "status", "N/A")
    IN  setdefault(d4, "raw_source", [url |-> ""])

\* --------------------------------------------------------------- documents

JudgmentNumbers == {100, 8152}
JudgmentName(n) == "judgment_" \o ToString(n) \o ".pdf"
JudgmentTitle(n) == "Judgment for " \o ToString(n)
CauseName == "cause_list_demo.pdf"
LogoName == "logo.png"

\* int(fname[len("judgment_"):-4]) for the names that start "judgment_" and
\* end ".pdf"; BadCode where int() raises
JudgmentTable ==
    ("judgment_100.pdf" :> 100) @@ ("judgment_8152.pdf" :> 8152)
    @@ ("judgment_latest.pdf" :> BadCode)
IsJudgmentName(fname) == fname \in DOMAIN JudgmentTable

SHOW_SAMPLE_LINES == TRUE

\* details.get(k) on a record of strings
DGet(d, k) == IF k \in DOMAIN d THEN d[k] ELSE Null

\* (details.get("raw_source") or {}).get("url", "")
SourceUrl(d) ==
    IF "raw_source" \in DOMAIN d /\ ~Falsy(d.raw_source) /\ "url" \in DOMAIN d.raw_source
    THEN d.raw_source.url ELSE ""

\* kv(lbl, val)
Kv(lbl, val) == <<lbl, IF val = Null \/ val = "" THEN "N/A" ELSE val>>

RECURSIVE KvAll(_, _)
KvAll(items, i) ==
    IF i > Len(items) THEN <<>>
    ELSE <<Kv(items[i][1], items[i][2])>> \o KvAll(items, i + 1)

\* what _create_pdf_with_details draws: the title and the label: value lines
\* (only the title when reportlab is missing)
Render(title, details) ==
    IF ~REPORTLAB_OK THEN << <<"title", title>> >>
    ELSE LET src == SourceUrl(details)
             sample == IF "sample_data" \in DOMAIN details THEN details.sample_data ELSE <<>>
         IN  << <<"title", title>>,
                Kv("Parties", DGet(details, "parties")),
                Kv("Filing Date", DGet(details, "filing_date")),
                Kv("Next Hearing", DGet(details, "next_hearing")),
                Kv("Status", DGet(details, "status")) >>
             \o (IF Truthy(src) THEN <<Kv("Source", src)>> ELSE <<>>)
             \o (IF SHOW_SAMPLE_LINES /\ Len(sample) > 0
                 THEN KvAll(FirstN(sample, 12), 1) ELSE <<>>)

CreatePdfIfMissing(dl, fname, title, details) ==
    IF fname \in DOMAIN dl THEN dl ELSE Put(dl, fname, Render(title, details))

\* _create_pdf_with_details on the downloads directory dl: writes the file,
\* over any file of that name
CreatePdf(dl, fname, title, details) == Put(dl, fname, Render(title, details))

CauseDetailsLookup == [status |-> "Generated", raw_source |-> [url |-> "https://example.invalid"]]
CauseDetailsDownload == [status |-> "Generated"]

CauseListAlways(dl, details) == CreatePdf(dl, CauseName, "Cause List Demo", details)

\* the cause list: created once if missing
CauseListOnce(dl, details) ==
    IF CauseName \in DOMAIN dl THEN dl
    ELSE CreatePdf(dl, CauseName, "Cause List Demo", details)

\* _ensure_logo_png
LogoPng == << <<"png", "1x1">> >>
EnsureLogoPng(dl) == IF LogoName \in DOMAIN dl THEN dl ELSE Put(dl, LogoName, LogoPng)

\* ---------------------------------------------------------- the live fetch

\* What a call of fetch_case_details may do: raise, or return a value.
FetchFull ==
    [parties |-> "State vs Mohan Lal", filing_date |-> "2022-03-01",
     next_hearing |-> "2025-12-01", status |-> "Pending",
     raw_source |-> [url |-> ECOURTS_URL]]
FetchNullParties == [parties |-> Null, status |-> "Pending"]
FetchNullSource == [status |-> "Pending", raw_source |-> NoDict]

FetchValues == {NoDict, EmptyDict, NonDict, FetchFull, FetchNullParties, FetchNullSource}
FetchOutcomes ==
    {[kind |-> "raise", val |-> NoDict, msg |-> "captcha required"]}
    \cup {[kind |-> "return", val |-> v, msg |-> ""] : v \in FetchValues}

\* how the outcome reads to a caller: the claim's cases of a failed fetch
FetchCase(o) ==
    IF o.kind = "raise" THEN "raise"
    ELSE IF o.val = NoDict THEN "none"
    ELSE IF o.val = EmptyDict THEN "empty"
    ELSE IF o.val = NonDict THEN "nondict"
    ELSE "dict"

\* -------------------------------------------------------------- the lookup

CaseTypes == {"Civil"}
Queries ==
    [case_type : CaseTypes, case_number : JudgmentNumbers, year : {2024},
     court_level : {"District"}]

MockRecord(case_type) ==
    [parties |-> case_type \o " Demo: Alice vs Bob", filing_date |-> "2023-07-18",
     next_hearing |-> "2025-10-10", status |-> "Listed",
     raw_source |-> [url |-> ECOURTS_URL]]

\* the try/except around the fetch call
LiveDetails(o) ==
    IF o.kind = "raise" THEN AsError(o.msg, "exception")
    ELSE IF IsDict(o.val) /\ ~Falsy(o.val) THEN o.val
    ELSE AsError("Unexpected scraper response", "scraper")

FallbackAllLive(q, o) ==
    IF USE_MOCK THEN [details |-> MockRecord(q.case_type), source |-> "live"]
    ELSE IF ~fetch_available
    THEN [details |-> AsError("scraper not available", "import"), source |-> "live"]
    ELSE [details |-> LiveDetails(o), source |-> "live"]

\* the branch taken when the resolver returned nothing
Fallback(q, o) ==
    IF USE_MOCK THEN [details |-> MockRecord(q.case_type), source |-> "mock"]
    ELSE IF ~fetch_available
    THEN [details |-> AsError("scraper not available", "import"), source |-> "live"]
    ELSE [details |-> LiveDetails(o), source |-> "live"]

\* details and source_kind before the completion pass
Resolved(q, o) ==
    LET details == dataset_lookup_by_case(q.case_number)
    IN  IF ~Falsy(details) THEN [details |-> details, source |-> "dataset"]
        ELSE Fallback(q, o)

\* str(details)[:500]: the record's text, cut at 500 characters
HtmlPreview(details) == [text_of |-> details, cut |-> 500]

LogEntryAlwaysOk(q, details) ==
    [case_type |-> q.case_type, case_number |-> q.case_number, year |-> q.year,
     court_level |-> q.court_level, status |-> "ok",
     source_url |-> IF "url" \in DOMAIN details.raw_source THEN details.raw_source.url ELSE "",
     html_preview |-> HtmlPreview(details)]

\* the QueryLog row lookup_case adds
LogEntry(q, details) ==
    [case_type |-> q.case_type, case_number |-> q.case_number, year |-> q.year,
     court_level |-> q.court_level,
     status |-> IF DGet(details, "status") # "Error" THEN "ok" ELSE "error",
     source_url |-> IF "url" \in DOMAIN details.raw_source THEN details.raw_source.url ELSE "",
     html_preview |-> HtmlPreview(details)]

Documents(n) ==
    << [kind |-> "judgment", file_name |-> JudgmentName(n),
        download_url |-> "/dl/file/" \o JudgmentName(n)],
       [kind |-> "cause_list", file_name |-> CauseName,
        download_url |-> "/dl/file/" \o CauseName] >>

\* which fetch case the request saw ("n/a" when the fetch was not called)
FetchSeen(q, o) ==
    IF ~Falsy(dataset_lookup_by_case(q.case_number)) \/ USE_MOCK THEN "n/a"
    ELSE IF ~fetch_available THEN "unavailable"
    ELSE FetchCase(o)

\* POST /cases/lookup
LookupCase(q, o) ==
    LET r == Resolved(q, o)
        details == EnsureMinFields(r.details)
        dl1 == CreatePdf(downloads, JudgmentName(q.case_number),
                         JudgmentTitle(q.case_number), details)
        dl2 == CauseListOnce(dl1, CauseDetailsLookup)
    IN  /\ Len(query_log) < MaxLog
        /\ downloads' = dl2
        /\ IF Falsy(details.raw_source)
           THEN \* details.get("raw_source", {}).get("url", "") raises on None
                /\ query_log' = query_log
                /\ last' = [op |-> "lookup", http |-> 500, input |-> q,
                            fetch |-> FetchSeen(q, o)]
           ELSE /\ query_log' = Append(query_log, LogEntry(q, details))
                /\ last' = [op |-> "lookup", http |-> 200, input |-> q,
                            fetch |-> FetchSeen(q, o), parsed |-> details,
                            source |-> r.source,
                            documents |-> Documents(q.case_number)]
        /\ UNCHANGED <<files, DATASET_ROWS, CASE_INDEX, DATASET_SUMMARY, USE_MOCK,
                       fetch_available, REPORTLAB_OK, load, res>>

\* ------------------------------------------------------------ the download

DownloadNames ==
    {"judgment_100.pdf", "judgment_8152.pdf", "judgment_latest.pdf",
     CauseName, LogoName, "report.pdf"}

CivilMock ==
    [parties |-> "CIVIL Demo: Alice vs Bob", filing_date |-> "2023-07-18",
     next_hearing |-> "2025-10-10", status |-> "Listed",
     raw_source |-> [url |-> ECOURTS_URL]]

\* the details dl_file renders for judgment number num
DownloadDetails(num) ==
    LET details == dataset_lookup_by_case(num)
    IN  IF ~Falsy(details) THEN details
        ELSE IF USE_MOCK THEN CivilMock
        ELSE AsError("No dataset/mocked details available", "server")

Served(fname, dl) == [op |-> "download", http |-> 200, file |-> fname, body |-> dl[fname]]
Refused(fname, code) == [op |-> "download", http |-> code, file |-> fname]

\* GET /dl/file/{fname}
DlFile(fname) ==
    /\ IF IsJudgmentName(fname)
       THEN IF JudgmentTable[fname] = BadCode
            THEN /\ downloads' = downloads
                 /\ last' = Refused(fname, 400)
            ELSE /\ downloads' = CreatePdf(downloads, fname,
                                    JudgmentTitle(JudgmentTable[fname]),
                                    DownloadDetails(JudgmentTable[fname]))
                 /\ last' = Served(fname, downloads')
       ELSE IF fname = CauseName /\ fname \notin DOMAIN downloads
            THEN /\ downloads' = CreatePdf(downloads, fname, "Cause List Demo",
                                           CauseDetailsDownload)
                 /\ last' = Served(fname, downloads')
            ELSE IF fname \notin DOMAIN downloads
            THEN /\ downloads' = downloads
                 /\ last' = Refused(fname, 404)
            ELSE /\ downloads' = downloads
                 /\ last' = Served(fname, downloads)
    /\ UNCHANGED <<files, DATASET_ROWS, CASE_INDEX, DATASET_SUMMARY, USE_MOCK,
                   fetch_available, REPORTLAB_OK, query_log, load, res>>

\* -------------------------------------------------------------- the reload

\* POST /admin/dataset/reload
ReloadDataset ==
    LET t == LoadNdapDatasets(CurTables, files)
    IN  /\ DATASET_ROWS' = t.rows
        /\ CASE_INDEX' = t.index
        /\ DATASET_SUMMARY' = t.summary
        /\ last' = [op |-> "reload", http |-> 200, rows |-> TotalRows(files, 1),
                    datasets |-> t.summary]
        /\ UNCHANGED <<files, USE_MOCK, fetch_available, REPORTLAB_OK, downloads,
                       query_log, load, res>>

\* a call of the resolver on its own, its result kept
ResolveNumbers == {7, 99, 100, 101, 8152}
ResolveCase(n) ==
    /\ last' = [op |-> "resolve", http |-> 0, number |-> n,
                result |-> dataset_lookup_by_case(n)]
    /\ UNCHANGED <<files, DATASET_ROWS, CASE_INDEX, DATASET_SUMMARY, USE_MOCK,
                   fetch_available, REPORTLAB_OK, downloads, query_log, load, res>>

\* ---------------------------------------------------- the report directories

\* a report file appears in, or a file's content is replaced in, a scanned folder
PutFile(pool) ==
    \E f \in pool, i \in 1..(Len(files) + 1) :
        /\ Len(files) < MaxFiles
        /\ ScanOrdered(InsertAt(files, i, f))
        /\ files' = InsertAt(files, i, f)
        /\ last' = [op |-> "fs", http |-> 0]
        /\ UNCHANGED <<DATASET_ROWS, CASE_INDEX, DATASET_SUMMARY, USE_MOCK,
                       fetch_available, REPORTLAB_OK, downloads, query_log, load, res>>

\* a report file is removed
DeleteFile ==
    \E i \in 1..Len(files) :
        /\ files' = RemoveAt(files, i)
        /\ last' = [op |-> "fs", http |-> 0]
        /\ UNCHANGED <<DATASET_ROWS, CASE_INDEX, DATASET_SUMMARY, USE_MOCK,
                       fetch_available, REPORTLAB_OK, downloads, query_log, load, res>>

\* ------------------------------------------------------------ specifications

LoadIdle == [pc |-> "idle", i |-> 0, idx |-> 0]
ResIdle == [pc |-> "idle"]

\* _startup over the report files fs: init_db, the logo, the first index build
Startup(fs) ==
    LET t == LoadNdapDatasets(NoTables, fs)
    IN  /\ files = fs
        /\ DATASET_ROWS = t.rows
        /\ CASE_INDEX = t.index
        /\ DATASET_SUMMARY = t.summary
        /\ downloads = EnsureLogoPng(<<>>)
        /\ query_log = <<>>
        /\ last = [op |-> "startup", http |-> 0]
        /\ load = LoadIdle
        /\ res = ResIdle

\* the report file the service specification adds and removes
ServicePool == {f \in IndexPool : f.dir = 1 /\ ParseCode(f.name) = 100}

\* The service: requests served one at a time.
Init ==
    /\ USE_MOCK \in BOOLEAN
    /\ fetch_available \in BOOLEAN
    /\ REPORTLAB_OK \in BOOLEAN
    /\ \E fs \in FileSystems(ServicePool) : Startup(fs)

Next ==
    \/ \E q \in Queries, o \in FetchOutcomes : LookupCase(q, o)
    \/ \E fname \in DownloadNames : DlFile(fname)
    \/ ReloadDataset
    \/ PutFile(ServicePool)
    \/ DeleteFile

Spec == Init /\ [][Next]_vars

\* The indexer and the resolver over the report directories.
InitIndex ==
    /\ USE_MOCK = FALSE
    /\ fetch_available = FALSE
    /\ REPORTLAB_OK = TRUE
    /\ \E fs \in FileSystems(IndexPool) : Startup(fs)

NextIndex ==
    \/ \E n \in ResolveNumbers : ResolveCase(n)
    \/ ReloadDataset
    \/ PutFile(IndexPool)
    \/ DeleteFile

SpecIndex == InitIndex /\ [][NextIndex]_vars

\* ------------------------------------------- the rebuild, statement by statement

SetTables(t) ==
    /\ DATASET_ROWS' = t.rows
    /\ CASE_INDEX' = t.index
    /\ DATASET_SUMMARY' = t.summary

Env == <<files, USE_MOCK, fetch_available, REPORTLAB_OK, downloads, query_log>>

At(pc, i, idx) == [pc |-> pc, i |-> i, idx |-> idx]

LoadStart ==
    /\ load.pc = "idle"
    /\ load' = At("clear_rows", 0, 0)
    /\ UNCHANGED <<Env, DATASET_ROWS, CASE_INDEX, DATASET_SUMMARY, last, res>>

LoadClearRows ==
    /\ load.pc = "clear_rows"
    /\ SetTables(ClearRows(CurTables))
    /\ load' = At("clear_index", 0, 0)
    /\ UNCHANGED <<Env, last, res>>

LoadClearIndex ==
    /\ load.pc = "clear_index"
    /\ SetTables(ClearIndex(CurTables))
    /\ load' = At("clear_summary", 0, 0)
    /\ UNCHANGED <<Env, last, res>>

LoadClearSummary ==
    /\ load.pc = "clear_summary"
    /\ SetTables(ClearSummary(CurTables))
    /\ load' = At("file", 1, 0)
    /\ UNCHANGED <<Env, last, res>>

\* the head of the file loop: the end of the scan, a file passed over, or
\* the file's row count recorded
LoadFileHead ==
    /\ load.pc = "file"
    /\ IF load.i > Len(files)
       THEN /\ load' = LoadIdle
            /\ last' = [op |-> "reload", http |-> 200, rows |-> TotalRows(files, 1),
                        datasets |-> DATASET_SUMMARY]
            /\ UNCHANGED <<DATASET_ROWS, CASE_INDEX, DATASET_SUMMARY>>
       ELSE IF Skipped(files[load.i])
       THEN /\ load' = At("file", load.i + 1, 0)
            /\ UNCHANGED <<DATASET_ROWS, CASE_INDEX, DATASET_SUMMARY, last>>
       ELSE /\ SetTables(StoreSummary(CurTables, files[load.i]))
            /\ load' = At("row_data", load.i, 0)
            /\ UNCHANGED last
    /\ UNCHANGED <<Env, res>>

LoadRowData ==
    /\ load.pc = "row_data"
    /\ LET f == files[load.i]
       IN  IF load.idx >= Len(f.rows)
           THEN /\ load' = At("file", load.i + 1, 0)
                /\ UNCHANGED <<DATASET_ROWS, CASE_INDEX, DATASET_SUMMARY>>
           ELSE /\ SetTables(StoreRowData(CurTables, ParseCode(f.name), load.idx,
                                          f.cols, f.rows[load.idx + 1]))
                /\ load' = At("row_code", load.i, load.idx)
    /\ UNCHANGED <<Env, last, res>>

LoadRowCode ==
    /\ load.pc = "row_code"
    /\ SetTables(StoreIndexCode(CurTables, ParseCode(files[load.i].name), load.idx))
    /\ load' = At("row_sum", load.i, load.idx)
    /\ UNCHANGED <<Env, last, res>>

LoadRowSum ==
    /\ load.pc = "row_sum"
    /\ SetTables(StoreIndexSum(CurTables, ParseCode(files[load.i].name), load.idx))
    /\ load' = At("row_data", load.i, load.idx + 1)
    /\ UNCHANGED <<Env, last, res>>

\* ------------------------------------------- the resolver, statement by statement

ResolveStart(n) ==
    /\ res.pc \in {"idle", "done"}
    /\ res' = IF n \in DOMAIN OVERRIDE_CASES
              THEN [pc |-> "done", n |-> n, result |-> OVERRIDE_CASES[n], stored |-> TRUE]
              ELSE [pc |-> "index", n |-> n]
    /\ UNCHANGED <<Env, DATASET_ROWS, CASE_INDEX, DATASET_SUMMARY, last, load>>

\* key = CASE_INDEX.get(int(case_number)); if not key: return None
ResolveIndex ==
    /\ res.pc = "index"
    /\ res' = IF res.n \in DOMAIN CASE_INDEX
              THEN [pc |-> "row", n |-> res.n, key |-> CASE_INDEX[res.n]]
              ELSE [pc |-> "done", n |-> res.n, result |-> NoDict, stored |-> FALSE]
    /\ UNCHANGED <<Env, DATASET_ROWS, CASE_INDEX, DATASET_SUMMARY, last, load>>

\* row = DATASET_ROWS.get((code, idx)) or {}, and the record built from it
ResolveRow ==
    /\ res.pc = "row"
    /\ res' = [pc |-> "done", n |-> res.n, result |-> RowRecord(DATASET_ROWS, res.key),
               stored |-> res.key \in DOMAIN DATASET_ROWS]
    /\ UNCHANGED <<Env, DATASET_ROWS, CASE_INDEX, DATASET_SUMMARY, last, load>>

\* A reload and a resolve running in two threads of the server's pool, the
\* report files changing only between reloads.
InitConc == InitIndex

NextConc ==
    \/ LoadStart
    \/ LoadClearRows
    \/ LoadClearIndex
    \/ LoadClearSummary
    \/ LoadFileHead
    \/ LoadRowData
    \/ LoadRowCode
    \/ LoadRowSum
    \/ \E n \in ResolveNumbers : ResolveStart(n)
    \/ ResolveIndex
    \/ ResolveRow
    \/ (load.pc = "idle" /\ PutFile(IndexPool))
    \/ (load.pc = "idle" /\ DeleteFile)

SpecConc == InitConc /\ [][NextConc]_vars

\* ------------------------------------------------------------------ claims

OverrideRecord == OVERRIDE_CASES[OverrideCase]

\* C1: for every case number of the manual override table, whatever the
\* index and rows tables hold after any rebuilds, the resolver returns the
\* override table's record for that number and never a dataset-derived
\* record: the tables as they stand resolve it so, and so did the call of
\* the resolver that ran last.
C1_OverrideWins ==
    /\ \A n \in DOMAIN OVERRIDE_CASES : dataset_lookup_by_case(n) = OVERRIDE_CASES[n]
    /\ (last.op = "resolve" /\ last.number \in DOMAIN OVERRIDE_CASES)
          => last.result = OVERRIDE_CASES[last.number]

\* a resolve of the override's number ran while the index held a dataset
\* entry for that number, deriving another record
C1_Witness ==
    /\ last.op = "resolve"
    /\ last.number = OverrideCase
    /\ OverrideCase \in DOMAIN CASE_INDEX
    /\ DatasetTier(OverrideCase, CASE_INDEX, DATASET_ROWS) # OverrideRecord
    /\ last.result = OverrideRecord

\* C2: after any completed rebuild, every dataset code c of the summary table
\* (the override table's numbers, which the override tier answers, aside) is
\* indexed to (c, 0), and resolving c returns the record derived from row 0
\* of dataset c.
C2_CodeResolvesToRowZero ==
    last.op = "reload" =>
        \A c \in DOMAIN DATASET_SUMMARY \ DOMAIN OVERRIDE_CASES :
            /\ c \in DOMAIN CASE_INDEX
            /\ CASE_INDEX[c] = <<c, 0>>
            /\ dataset_lookup_by_case(c) = RowRecord(DATASET_ROWS, <<c, 0>>)

FieldSet(d, k) == k \in DOMAIN d /\ d[k] # Null

\* C3: the record a lookup returns, which the field-completion pass returned,
\* has parties, filing_date, next_hearing, status and raw_source.url all
\* present and non-null, whichever tier or live fetch value it came from.
C3_MinFieldsPresent ==
    (last.op = "lookup" /\ last.http = 200) =>
        /\ FieldSet(last.parsed, "parties")
        /\ FieldSet(last.parsed, "filing_date")
        /\ FieldSet(last.parsed, "next_hearing")
        /\ FieldSet(last.parsed, "status")
        /\ "raw_source" \in DOMAIN last.parsed
        /\ FieldSet(last.parsed.raw_source, "url")

\* C4: when a lookup of case number n or a download of judgment_n.pdf has
\* completed, the stored judgment document of n is the rendering of the
\* record that request resolved against the tables as they now are: the
\* resolver's record where it has one (else the fallback record the lookup
\* returned, or the download's own fallback), never an earlier request's.
C4_JudgmentFresh ==
    /\ (last.op = "lookup" /\ last.http = 200) =>
          LET n == last.input.case_number
          IN  /\ JudgmentName(n) \in DOMAIN downloads
              /\ downloads[JudgmentName(n)] = Render(JudgmentTitle(n), last.parsed)
              /\ ~Falsy(dataset_lookup_by_case(n))
                    => last.parsed = dataset_lookup_by_case(n)
    /\ (last.op = "download" /\ last.http = 200 /\ IsJudgmentName(last.file)) =>
          LET n == JudgmentTable[last.file]
          IN  /\ last.file \in DOMAIN downloads
              /\ downloads[last.file] = Render(JudgmentTitle(n), DownloadDetails(n))
              /\ last.body = downloads[last.file]

\* two lookups of case 100 completed, a rebuild between them having changed
\* what 100 resolves to, and the document is drawn in full
C4_Witness ==
    /\ REPORTLAB_OK
    /\ last.op = "lookup"
    /\ last.http = 200
    /\ last.input.case_number = 100
    /\ last.source = "dataset"
    /\ Len(query_log) = 2
    /\ query_log[1].case_number = 100
    /\ query_log[1].html_preview # query_log[2].html_preview

\* C5: a rebuild run again over the same report files, enumerated in the
\* same order, leaves the summary table and the case index as the rebuild
\* that just completed left them, and those hold what a rebuild of empty
\* tables over the files yields: nothing is left over from before.
C5_RebuildIdempotent ==
    last.op = "reload" =>
        /\ LoadNdapDatasets(CurTables, files).summary = DATASET_SUMMARY
        /\ LoadNdapDatasets(CurTables, files).index = CASE_INDEX
        /\ LoadFiles(NoTables, files, 1).summary = DATASET_SUMMARY
        /\ LoadFiles(NoTables, files, 1).index = CASE_INDEX

\* a rebuild completed over two report files that left several index entries
C5_Witness ==
    /\ last.op = "reload"
    /\ Len(files) = 2
    /\ Cardinality(DOMAIN CASE_INDEX) >= 2
    /\ Cardinality(DOMAIN DATASET_SUMMARY) = 2

\* C6: the source tag of a lookup response names the tier that produced the
\* record: "dataset" when the resolver returns a record for the number,
\* "mock" when it returns none and mock mode is on (the parties then being
\* "<case_type> Demo: Alice vs Bob"), "live" when it returns none and mock
\* mode is off.
C6_SourceTag ==
    (last.op = "lookup" /\ last.http = 200) =>
        LET found == ~Falsy(dataset_lookup_by_case(last.input.case_number))
        IN  /\ found => last.source = "dataset"
            /\ (~found /\ USE_MOCK) =>
                  /\ last.source = "mock"
                  /\ last.parsed.parties = last.input.case_type \o " Demo: Alice vs Bob"
            /\ (~found /\ ~USE_MOCK) => last.source = "live"

\* a lookup answered by the mock tier
C6_Witness ==
    /\ last.op = "lookup"
    /\ last.http = 200
    /\ last.source = "mock"
    /\ last.parsed.parties = "Civil Demo: Alice vs Bob"

\* A step that completes a lookup grows the audit log by exactly one entry
\* and every other step leaves the log as it is; the entries it held stay as
\* they were; the new entry's status is "error" exactly when the returned
\* record's status is "Error", and "ok" otherwise.
C7_Step ==
    IF last'.op = "lookup" /\ last'.http = 200
    THEN /\ Len(query_log') = Len(query_log) + 1
         /\ SubSeq(query_log', 1, Len(query_log)) = query_log
         /\ query_log'[Len(query_log')].status =
               (IF last'.parsed.status = "Error" THEN "error" ELSE "ok")
         /\ query_log'[Len(query_log')].case_number = last'.input.case_number
    ELSE query_log' = query_log
\* C7, over every step of a behaviour: the audit log grows by one entry per
\* completed lookup, with the status the returned record gives, and by none otherwise
C7_AuditLog == [][C7_Step]_vars

\* a lookup that returned an error record completed after one that did not
C7_Witness ==
    /\ last.op = "lookup"
    /\ last.http = 200
    /\ Len(query_log) = 2
    /\ query_log[1].status = "ok"
    /\ query_log[2].status = "error"

FailedFetch == {"unavailable", "raise", "none", "empty", "nondict"}

\* C8: a lookup with no override and no dataset match, mock mode off, whose
\* live fetch was unavailable, raised, or returned an empty or non-record
\* value, ends in a normal response whose record has status "Error" and an
\* error object {where, message}; the judgment document is rendered from it
\* and the audit entry appended.
C8_LiveFailureIsData ==
    (last.op = "lookup" /\ last.fetch \in FailedFetch) =>
        /\ last.http = 200
        /\ last.source = "live"
        /\ last.parsed.status = "Error"
        /\ "error" \in DOMAIN last.parsed
        /\ DOMAIN last.parsed.error = {"where", "message"}
        /\ JudgmentName(last.input.case_number) \in DOMAIN downloads
        /\ downloads[JudgmentName(last.input.case_number)] =
              Render(JudgmentTitle(last.input.case_number), last.parsed)
        /\ Len(query_log) > 0
        /\ query_log[Len(query_log)].case_number = last.input.case_number
        /\ query_log[Len(query_log)].status = "error"

\* a lookup whose live fetch raised
C8_Witness ==
    /\ last.op = "lookup"
    /\ last.fetch = "raise"
    /\ last.http = 200
    /\ last.parsed.error.where = "exception"

\* Once the cause-list demo document exists, a step leaves it in place with
\* the content its creating request rendered.
C9_Step ==
    CauseName \in DOMAIN downloads =>
        /\ CauseName \in DOMAIN downloads'
        /\ downloads'[CauseName] = downloads[CauseName]
\* C9, over every step of a behaviour: an existing cause-list document is
\* never written again
C9_CauseListOnce == [][C9_Step]_vars

\* a lookup completed after a download had created the cause list, whose
\* content is still the download's
C9_Witness ==
    /\ REPORTLAB_OK
    /\ last.op = "lookup"
    /\ CauseName \in DOMAIN downloads
    /\ downloads[CauseName] = Render("Cause List Demo", CauseDetailsDownload)
    /\ downloads[CauseName] # Render("Cause List Demo", CauseDetailsLookup)

\* C10: in every state of a rebuild interleaved statement by statement with
\* resolve calls, every entry of the case index refers to a key the rows
\* table holds, and a resolve that returned a record derived it from a
\* stored row.
C10_IndexRefersToStoredRows ==
    /\ \A n \in DOMAIN CASE_INDEX : CASE_INDEX[n] \in DOMAIN DATASET_ROWS
    /\ (res.pc = "done" /\ res.result # NoDict) => res.stored

====
